---- MODULE Spec2Model ----
(***************************************************************************)
(* The query execution engine of the SQL client (src/main_window.py):      *)
(* MainWindow's session registry (running_queries), timer bookkeeping      *)
(* (tab_timers) and tab widget on the UI thread, RunnableQuery.run on the  *)
(* worker threads of the QThreadPool, and the queued signal deliveries     *)
(* that carry a job's outcome back to the UI thread.                       *)
(*                                                                         *)
(* RunnableQuery.run is cut at its blocking calls: connect, execute,       *)
(* fetchall/commit.  A cancel() that arrives while a call blocks is a      *)
(* cancel() before the model's step for that call.  A signal emitted by a  *)
(* worker is queued to the UI thread and handled there later, in the order *)
(* of emission.                                                            *)
(*                                                                         *)
(* The export engine is modelled next to it: export_schema_table_rows,     *)
(* RunnableExport.run, the Processes tab and the rows of processes_model   *)
(* (the process ledger) with the handlers of the terminal reports.         *)
(***************************************************************************)
EXTENDS Integers, Sequences, FiniteSets, TLC

\* ---------------------------------------------------------------- bounds
MaxTabs == 2          \* tab widgets ever created by add_tab
MaxJobs == 2          \* RunnableQuery objects ever created
MaxThreadCount == 1   \* QThreadPool.maxThreadCount() of the machine
MaxRows == 1          \* rows of a result set / largest reported rowcount
MaxExports == 2       \* RunnableExport objects ever created

\* cursor.rowcount when the backend cannot tell (DB-API 2.0)
UnknownRowCount == -1

TabIds == 1 .. MaxTabs
JobIds == 1 .. MaxJobs
ExportIds == 1 .. MaxExports

\* the QWidget named "ProcessesTab", when it sits in the tab widget
ProcessesTab == MaxTabs + 1

\* ------------------------------------------------------ strings / queries
\* A query text is a sequence of tokens; " " is whitespace, "SELECT" and
\* "select" differ by case only.
Lower(tok) == IF tok = "SELECT" THEN "select"
              ELSE IF tok = "UPDATE" THEN "update" ELSE tok

LowerStr(s) == [i \in 1 .. Len(s) |-> Lower(s[i])]

RECURSIVE LStrip(_)
LStrip(s) == IF s # <<>> /\ Head(s) = " " THEN LStrip(Tail(s)) ELSE s

RECURSIVE RStrip(_)
RStrip(s) == IF s # <<>> /\ s[Len(s)] = " "
             THEN RStrip(SubSeq(s, 1, Len(s) - 1)) ELSE s

Strip(s) == RStrip(LStrip(s))

StartsWith(s, tok) == s # <<>> /\ Head(s) = tok

\* what the user may have typed into query_editor
EditorTexts == { <<" ">>, <<" ", "SELECT", " ">>, <<"UPDATE">> }

\* the statement count_table_rows builds
CountQuery == <<"SELECT">>

\* self.query.lower().strip().startswith("select")
IsSelectQuery(query) == StartsWith(Strip(LowerStr(query)), "select")

\* ------------------------------------------------------- connection data
\* conn_data: None, or a dict whose "id" is falsy (0: absent, None or 0)
\* or truthy (1).  db_path is whether its "db_path" is truthy; category is
\* the category its item is stored under, which is no key of the dict.
NoConnData == [present |-> FALSE, id |-> 0, db_path |-> FALSE, category |-> ""]
ConnDatas == { [present |-> TRUE, id |-> i, db_path |-> FALSE, category |-> "postgres"]
               : i \in {0, 1} }

\* the default categories of the connection store (db.py, line 232)
Categories == { "postgres", "sqlite", "oracle" }

\* the items load_joined_items puts into a worksheet's combo box: every item
\* of the store, whatever its category; only a sqlite item has a db_path
StoredConnDatas ==
    { [present |-> TRUE, id |-> 1, db_path |-> (c = "sqlite"), category |-> c]
      : c \in Categories }

\* ------------------------------------------------------ backend answers
\* cursor.description is a sequence of tuples whose first item is the
\* column name; <<>> stands for "no descriptor" (None).
Descriptions == { <<>>, << <<"a", "int">>, <<"b", "text">> >> }

RowsOf(n) == [i \in 1 .. n |-> i]

NoResp == [description |-> <<>>, rows |-> <<>>, rowcount |-> UnknownRowCount]

\* what a backend reports after cursor.execute(query) returned
Responses(query) ==
    IF IsSelectQuery(query)
    THEN { [description |-> d, rows |-> RowsOf(n), rowcount |-> UnknownRowCount] :
               d \in Descriptions \ {<<>>}, n \in 0 .. MaxRows }
         \cup { NoResp }
    ELSE { [description |-> <<>>, rows |-> <<>>, rowcount |-> c] :
               c \in UnknownRowCount .. MaxRows }

\* -------------------------------------------------------------- state
VARIABLES
    tab_widget,       \* QTabWidget: the open tabs, in order
    current_tab,      \* tab_widget.currentWidget()
    tabs_created,     \* number of tab widgets created so far
    running_queries,  \* MainWindow.running_queries: tab -> job
    tab_timers,       \* MainWindow.tab_timers: tab -> timer entry
    cancel_enabled,   \* cancel_action.isEnabled()
    jobs,             \* the RunnableQuery objects
    jobs_created,     \* number of RunnableQuery objects created so far
    pool_queue,       \* QThreadPool: runnables waiting for a thread
    ui_queue,         \* signal emissions queued to the UI thread
    history,          \* the calls of db.save_query_history (rows of query_history)
    dialog,           \* the modal QMessageBox on screen, "none" when there is none
    processes_tab,    \* MainWindow.processes_tab is not None
    processes_model,  \* MainWindow.processes_model: the rows of the process ledger
    exports,          \* the RunnableExport objects
    exports_created   \* number of RunnableExport objects created so far

vars == << tab_widget, current_tab, tabs_created, running_queries, tab_timers,
           cancel_enabled, jobs, jobs_created, pool_queue, ui_queue, history,
           dialog, processes_tab, processes_model, exports, exports_created >>

\* the state of the export engine apart from the Processes tab
export_vars == << processes_model, exports, exports_created >>

UnusedJob ==
    [ pc |-> "unused", kind |-> "query", tab |-> 0, conn_data |-> NoConnData,
      query |-> <<>>, cancelled |-> FALSE, conn |-> "none",
      executed |-> FALSE, committed |-> FALSE, resp |-> NoResp,
      columns |-> <<>>, results |-> <<>>, row_count |-> 0,
      final_read |-> "unread", outcome |-> "none",
      results_handled |-> 0, errors_handled |-> 0,
      error_message |-> "", cancelled_pending |-> FALSE, cancelled_by |-> "", handled_for |-> 0,
      connect_attempted |-> "none" ]

UnusedExport ==
    [ pc |-> "unused", process_id |-> 0, db_type |-> "", conn |-> "none",
      written |-> FALSE, outcome |-> "none", failure |-> "",
      finished_emitted |-> 0, error_emitted |-> 0, reports_handled |-> 0,
      reports_missed |-> 0 ]

Init ==
    /\ tab_widget = <<1>>
    /\ current_tab = 1
    /\ tabs_created = 1
    /\ running_queries = << >>
    /\ tab_timers = << >>
    /\ cancel_enabled = FALSE
    /\ jobs = [j \in JobIds |-> UnusedJob]
    /\ jobs_created = 0
    /\ pool_queue = <<>>
    /\ ui_queue = <<>>
    /\ history = <<>>
    /\ dialog = "none"
    /\ processes_tab = FALSE
    /\ processes_model = <<>>
    /\ exports = [x \in ExportIds |-> UnusedExport]
    /\ exports_created = 0

\* ------------------------------------------------------------- helpers
\* variant of DictDel: the entry is left in place
MutDictDel(d, k) == d

\* del d[k]
DictDel(d, k) == [x \in DOMAIN d \ {k} |-> d[x]]

\* d[k] = v
DictSet(d, k, v) == [x \in DOMAIN d \cup {k} |-> IF x = k THEN v ELSE d[x]]

RemoveAt(s, i) == [k \in 1 .. Len(s) - 1 |-> IF k < i THEN s[k] ELSE s[k + 1]]

\* jobs that occupy a pool thread
ActiveThreads == { j \in JobIds : jobs[j].pc \in {"pending", "marshal", "final", "except"} }

\* QThreadPool.start(runnable): a free thread takes the runnable at once,
\* otherwise it waits in the pool's queue.
PoolStartPc == IF Cardinality(ActiveThreads) < MaxThreadCount THEN "pending" ELSE "queued"

\* run() of job j returned, leaving record rec: its thread takes the next
\* waiting runnable.
Terminated(j, rec) ==
    LET js == [jobs EXCEPT ![j] = rec] IN
    IF pool_queue = <<>>
    THEN /\ jobs' = js
         /\ pool_queue' = pool_queue
    ELSE /\ jobs' = [js EXCEPT ![Head(pool_queue)].pc = "pending"]
         /\ pool_queue' = Tail(pool_queue)

\* variant of Closed: the finally block left out
MutClosed(conn) == conn

\* the finally block of run(), lines 1007-1009 and 950-953:
\* if conn: conn.close()
Closed(conn) == IF conn = "none" THEN "none" ELSE "closed"

\* the locals of run() die with the call; conn.close() in the finally block
Returned(job, outcome) ==
    [job EXCEPT !.pc = "done", !.outcome = outcome,
                !.conn = Closed(job.conn),
                !.resp = NoResp, !.columns = <<>>, !.results = <<>>,
                !.row_count = 0, !.error_message = ""]

\* RunnableQuery.cancel(), called by the operation by; cancelled_pending and
\* cancelled_by keep whether run() had not started yet and who called
cancel(job, by) ==
    [job EXCEPT !.cancelled = TRUE,
                !.cancelled_pending = job.pc \in {"pending", "queued"},
                !.cancelled_by = by]

\* ------------------------------------------------- UI thread: the tabs
\* QTabWidget.indexOf(widget), counted from 1
IndexOf(widgets, w) == CHOOSE i \in 1 .. Len(widgets) : widgets[i] = w

\* QTabWidget.insertTab(index, widget), index counted from 1
InsertTab(widgets, index, w) ==
    [k \in 1 .. Len(widgets) + 1 |->
        IF k < index THEN widgets[k] ELSE IF k = index THEN w ELSE widgets[k - 1]]

\* MainWindow.add_tab: a new widget, inserted last, or before the Processes
\* tab when there is one, and made current
add_tab ==
    /\ dialog = "none"
    /\ tabs_created < MaxTabs
    /\ tabs_created' = tabs_created + 1
    /\ tab_widget' = InsertTab(tab_widget,
                               IF processes_tab THEN IndexOf(tab_widget, ProcessesTab)
                               ELSE Len(tab_widget) + 1,
                               tabs_created + 1)
    /\ current_tab' = tabs_created + 1
    /\ UNCHANGED << running_queries, tab_timers, cancel_enabled, jobs,
                    jobs_created, pool_queue, ui_queue, history, dialog,
                    processes_tab >>
    /\ UNCHANGED export_vars

\* the user clicks on another tab
select_tab(i) ==
    /\ dialog = "none"
    /\ i \in 1 .. Len(tab_widget)
    /\ tab_widget[i] # current_tab
    /\ current_tab' = tab_widget[i]
    /\ UNCHANGED << tab_widget, tabs_created, running_queries, tab_timers,
                    cancel_enabled, jobs, jobs_created, pool_queue, ui_queue,
                    history, dialog >>
    /\ UNCHANGED << processes_tab, export_vars >>

\* QTabWidget.removeTab(index): when the current tab goes, its right
\* neighbour becomes current, or the last tab when there is none
CurrentAfterRemove(index) ==
    LET rest == RemoveAt(tab_widget, index) IN
    IF tab_widget[index] # current_tab THEN current_tab
    ELSE IF index <= Len(rest) THEN rest[index] ELSE rest[Len(rest)]

\* variant of CloseHasJob: the check of line 1484 left out
MutCloseHasJob(tab) == FALSE

\* close_tab, line 1484: the closed tab has a registered job
CloseHasJob(tab) == tab \in DOMAIN running_queries

\* MainWindow.close_tab(index)
close_tab(index) ==
    /\ dialog = "none"
    /\ index \in 1 .. Len(tab_widget)
    /\ IF Len(tab_widget) <= 1
       THEN /\ dialog' = "Cannot Close"
            /\ UNCHANGED << tab_widget, current_tab, running_queries,
                            tab_timers, cancel_enabled, jobs, processes_tab >>
       ELSE LET tab == tab_widget[index]
                rq == IF CloseHasJob(tab) THEN DictDel(running_queries, tab)
                      ELSE running_queries
            IN /\ processes_tab' = IF tab = ProcessesTab THEN FALSE
                                   ELSE processes_tab
               /\ jobs' = IF CloseHasJob(tab)
                          THEN [jobs EXCEPT ![running_queries[tab]] = cancel(@, "close_tab")]
                          ELSE jobs
               /\ running_queries' = rq
               /\ cancel_enabled' = IF CloseHasJob(tab) /\ DOMAIN rq = {}
                                    THEN FALSE ELSE cancel_enabled
               /\ tab_timers' = IF tab \in DOMAIN tab_timers
                                THEN DictDel(tab_timers, tab) ELSE tab_timers
               /\ tab_widget' = RemoveAt(tab_widget, index)
               /\ current_tab' = CurrentAfterRemove(index)
               /\ UNCHANGED dialog
    /\ UNCHANGED << tabs_created, jobs_created, pool_queue, ui_queue, history >>
    /\ UNCHANGED export_vars

\* the user dismisses the modal QMessageBox; until then the operation that
\* opened it has not returned and the window takes no input, while queued
\* signals are still handled by the dialog's event loop
dismiss_dialog ==
    /\ dialog # "none"
    /\ dialog' = "none"
    /\ UNCHANGED << tab_widget, current_tab, tabs_created, running_queries,
                    tab_timers, cancel_enabled, jobs, jobs_created, pool_queue,
                    ui_queue, history >>
    /\ UNCHANGED << processes_tab, export_vars >>

\* ------------------------------------------- UI thread: submit, cancel
\* variant of AlreadyRunning: the check of line 1735 left out
MutAlreadyRunning(tab) == FALSE

\* execute_query, line 1735: the session already has a registered job
AlreadyRunning(tab) == tab \in DOMAIN running_queries

\* RunnableQuery.__init__ followed by QThreadPool.start
NewJob(kind, tab, conn_data, query) ==
    [UnusedJob EXCEPT !.pc = PoolStartPc, !.kind = kind, !.tab = tab,
                      !.conn_data = conn_data, !.query = query]

\* MainWindow.execute_query; history_view is editor_stack.currentIndex() = 1,
\* conn_data the combo box's currentData(), text the editor's plain text
execute_query(history_view, conn_data, text) ==
    LET query == Strip(text)
        j == jobs_created + 1
    IN
    /\ dialog = "none"
    /\ IF history_view
       THEN /\ dialog' = "Cannot execute from History view"
            /\ UNCHANGED << running_queries, tab_timers, cancel_enabled, jobs,
                            jobs_created, pool_queue >>
       ELSE IF AlreadyRunning(current_tab)
       THEN /\ dialog' = "Query in Progress"
            /\ UNCHANGED << running_queries, tab_timers, cancel_enabled, jobs,
                            jobs_created, pool_queue >>
       ELSE IF ~conn_data.present \/ query = <<>>
       THEN UNCHANGED << running_queries, tab_timers, cancel_enabled, jobs,
                       jobs_created, pool_queue, dialog >>
       ELSE /\ jobs_created < MaxJobs
            /\ tab_timers' = DictSet(tab_timers, current_tab, [start_time |-> j])
            /\ running_queries' = DictSet(running_queries, current_tab, j)
            /\ cancel_enabled' = TRUE
            /\ jobs' = [jobs EXCEPT ![j] = NewJob("query", current_tab, conn_data, query)]
            /\ jobs_created' = j
            /\ pool_queue' = IF PoolStartPc = "queued" THEN Append(pool_queue, j)
                             ELSE pool_queue
            /\ UNCHANGED dialog
    /\ UNCHANGED << tab_widget, current_tab, tabs_created, ui_queue, history >>
    /\ UNCHANGED << processes_tab, export_vars >>

\* variant of Registered: the job is looked up among the jobs the tab has
\* submitted instead of in the registry
MutRegistered(tab) ==
    IF \E j \in JobIds : jobs[j].kind = "query" /\ jobs[j].tab = tab
    THEN CHOOSE j \in JobIds : jobs[j].kind = "query" /\ jobs[j].tab = tab
    ELSE 0

\* cancel_current_query, line 1860: self.running_queries.get(current_tab),
\* 0 for None
Registered(tab) ==
    IF tab \in DOMAIN running_queries THEN running_queries[tab] ELSE 0

\* MainWindow.cancel_current_query
cancel_current_query ==
    /\ dialog = "none"
    /\ IF Registered(current_tab) # 0
       THEN LET rq == DictDel(running_queries, current_tab) IN
            /\ jobs' = [jobs EXCEPT ![Registered(current_tab)] =
                                       cancel(@, "cancel_current_query")]
            /\ tab_timers' = IF current_tab \in DOMAIN tab_timers
                             THEN DictDel(tab_timers, current_tab) ELSE tab_timers
            /\ running_queries' = rq
            /\ cancel_enabled' = IF DOMAIN rq = {} THEN FALSE ELSE cancel_enabled
       ELSE UNCHANGED << jobs, tab_timers, running_queries, cancel_enabled >>
    /\ UNCHANGED << tab_widget, current_tab, tabs_created, jobs_created,
                    pool_queue, ui_queue, history, dialog >>
    /\ UNCHANGED << processes_tab, export_vars >>

\* the conn_data of a schema tree item: a stored connection, with its id
TreeConnData == [present |-> TRUE, id |-> 1, db_path |-> FALSE, category |-> "postgres"]

\* MainWindow.count_table_rows(item_data, table_name): a job of no session;
\* conn_data is item_data.get('conn_data')
count_table_rows(conn_data) ==
    LET j == jobs_created + 1 IN
    /\ dialog = "none"
    /\ jobs_created < MaxJobs
    /\ jobs' = [jobs EXCEPT ![j] = NewJob("count", 0, conn_data, CountQuery)]
    /\ jobs_created' = j
    /\ pool_queue' = IF PoolStartPc = "queued" THEN Append(pool_queue, j)
                     ELSE pool_queue
    /\ UNCHANGED << tab_widget, current_tab, tabs_created, running_queries,
                    tab_timers, cancel_enabled, ui_queue, history, dialog >>
    /\ UNCHANGED << processes_tab, export_vars >>

\* ------------------------------------------ worker thread: RunnableQuery
\* signals.finished.emit(conn_data, query, results, columns, row_count,
\* elapsed_time, is_select_query); backend is what the backend had reported
FinishedEvent(j) ==
    [ sig |-> "finished", job |-> j, kind |-> jobs[j].kind,
      target_tab |-> jobs[j].tab, conn_data |-> jobs[j].conn_data,
      query |-> jobs[j].query, results |-> jobs[j].results,
      columns |-> jobs[j].columns, row_count |-> jobs[j].row_count,
      is_select_query |-> IsSelectQuery(jobs[j].query),
      committed |-> jobs[j].committed, backend |-> jobs[j].resp,
      error_message |-> "" ]

\* signals.error.emit(str(e))
ErrorEvent(j) ==
    [ sig |-> "error", job |-> j, kind |-> jobs[j].kind,
      target_tab |-> jobs[j].tab, conn_data |-> jobs[j].conn_data,
      query |-> jobs[j].query, results |-> <<>>, columns |-> <<>>,
      row_count |-> 0, is_select_query |-> FALSE,
      committed |-> jobs[j].committed, backend |-> NoResp,
      error_message |-> jobs[j].error_message ]

\* variant of ConnectionFails: the checks of lines 970 and 977 left out
MutConnectionFails(job, opened) == FALSE

\* run(), lines 970-978: there is no conn_data, or the connection factory
\* returned None (opened is whether it returned a handle)
ConnectionFails(job, opened) == ~(job.conn_data.present /\ opened)

\* run(), lines 971 and 978: the message of the ConnectionError raised
ConnectionError(job) ==
    IF ~job.conn_data.present THEN "Incomplete connection information."
    ELSE "Failed to establish database connection."

\* run(), lines 972-976: the connection factory run() calls for conn_data
ConnectionFactory(conn_data) ==
    IF conn_data.db_path THEN "create_sqlite_connection"
    ELSE "create_postgres_connection"

\* run(), lines 967-984: the thread picks the runnable up, connects (opened:
\* the connection factory returned a handle), calls cursor.execute(query),
\* which raises (raised) or returns with the backend's answer resp, and
\* reads the cancel flag at the first checkpoint.  Nothing before that
\* checkpoint reads or writes state shared with the UI thread.
\* connect_attempted keeps the factory that was called.
Run_Execute(j, opened, raised, resp) ==
    LET conn == IF opened THEN "open" ELSE "none"
        job == [jobs[j] EXCEPT !.connect_attempted =
                   IF jobs[j].conn_data.present
                   THEN ConnectionFactory(jobs[j].conn_data)
                   ELSE "none"]
    IN
    /\ jobs[j].pc = "pending"
    /\ resp \in Responses(jobs[j].query)
    /\ IF ConnectionFails(jobs[j], opened)
       THEN /\ ~raised /\ resp = NoResp
            /\ jobs' = [jobs EXCEPT ![j] =
                          [job EXCEPT !.pc = "except",
                                      !.error_message = ConnectionError(jobs[j])]]
            /\ pool_queue' = pool_queue
       ELSE IF raised
       THEN /\ resp = NoResp
            /\ jobs' = [jobs EXCEPT ![j] =
                          [job EXCEPT !.pc = "except", !.conn = conn,
                                      !.executed = TRUE,
                                      !.error_message = "str(e)"]]
            /\ pool_queue' = pool_queue
       ELSE IF jobs[j].cancelled
       THEN /\ resp = NoResp
            /\ Terminated(j, Returned([job EXCEPT !.conn = conn, !.executed = TRUE],
                                      "Cancelled"))
       ELSE /\ jobs' = [jobs EXCEPT ![j] =
                          [job EXCEPT !.pc = "marshal", !.conn = conn,
                                      !.executed = TRUE, !.resp = resp]]
            /\ pool_queue' = pool_queue
    /\ UNCHANGED << tab_widget, current_tab, tabs_created, running_queries,
                    tab_timers, cancel_enabled, jobs_created, ui_queue,
                    history, dialog >>
    /\ UNCHANGED << processes_tab, export_vars >>

\* variant of ColumnNames: the names taken in reverse order
MutColumnNames(description) ==
    [i \in 1 .. Len(description) |-> description[Len(description) + 1 - i][1]]

\* run(), line 989: the column names of cursor.description
ColumnNames(description) == [i \in 1 .. Len(description) |-> description[i][1]]

\* variant of AffectedCount: the sentinel passed on unclamped
MutAffectedCount(rowcount) == rowcount

\* run(), line 997: the affected-row count of a mutating statement
AffectedCount(rowcount) == IF rowcount # UnknownRowCount THEN rowcount ELSE 0

\* variant of MarshalSelect: row_count not set from the fetched rows
MutMarshalSelect(job) ==
    IF job.resp.description # <<>>
    THEN [job EXCEPT !.columns = [i \in 1 .. Len(job.resp.description) |->
                                     job.resp.description[i][1]],
                     !.results = IF ~job.cancelled THEN job.resp.rows ELSE <<>>]
    ELSE [job EXCEPT !.row_count = 0]

\* run(), lines 985-994: marshaling of a row-returning statement
MarshalSelect(job) ==
    IF job.resp.description # <<>>
    THEN [job EXCEPT !.columns = ColumnNames(job.resp.description),
                     !.results = IF ~job.cancelled THEN job.resp.rows ELSE <<>>,
                     !.row_count = IF ~job.cancelled THEN Len(job.resp.rows) ELSE 0]
    ELSE [job EXCEPT !.row_count = 0]

\* variant of MarshalMutating: the commit of line 996 left out
MutMarshalMutating(job) ==
    [job EXCEPT !.row_count = IF job.resp.rowcount # UnknownRowCount
                              THEN job.resp.rowcount ELSE 0]

\* run(), lines 995-997: commit of a mutating statement
MarshalMutating(job) ==
    [job EXCEPT !.committed = TRUE, !.row_count = AffectedCount(job.resp.rowcount)]

\* run(), lines 985-997; raised is whether fetchall() or commit() raised
Run_Marshal(j, raised) ==
    /\ jobs[j].pc = "marshal"
    /\ jobs' = [jobs EXCEPT ![j] =
                 IF raised THEN [@ EXCEPT !.pc = "except", !.error_message = "str(e)"]
                 ELSE IF IsSelectQuery(@.query)
                 THEN [MarshalSelect(@) EXCEPT !.pc = "final"]
                 ELSE [MarshalMutating(@) EXCEPT !.pc = "final"]]
    /\ UNCHANGED << tab_widget, current_tab, tabs_created, running_queries,
                    tab_timers, cancel_enabled, jobs_created, pool_queue,
                    ui_queue, history, dialog >>
    /\ UNCHANGED << processes_tab, export_vars >>

\* variant of FinalCheckpoint: the check of line 998 left out
MutFinalCheckpoint(job) == FALSE

\* run(), line 998: the final checkpoint reads the cancel flag
FinalCheckpoint(job) == job.cancelled

\* run(), lines 998-1003 and 1007-1009; final_read keeps the value the flag
\* had when line 998 read it
Run_Final(j) ==
    LET rec == [jobs[j] EXCEPT !.final_read = IF jobs[j].cancelled THEN "set" ELSE "unset"] IN
    /\ jobs[j].pc = "final"
    /\ IF FinalCheckpoint(jobs[j])
       THEN /\ Terminated(j, Returned(rec, "Cancelled"))
            /\ ui_queue' = ui_queue
       ELSE /\ Terminated(j, Returned(rec, "Succeeded"))
            /\ ui_queue' = Append(ui_queue, FinishedEvent(j))
    /\ UNCHANGED << tab_widget, current_tab, tabs_created, running_queries,
                    tab_timers, cancel_enabled, jobs_created, history, dialog >>
    /\ UNCHANGED << processes_tab, export_vars >>

\* variant of ErrorSuppressed: the handler never reports
MutErrorSuppressedAlways(job) == TRUE

\* variant of ErrorSuppressed: the check of line 1005 left out
MutErrorSuppressed(job) == FALSE

\* run(), line 1005: the exception handler reads the cancel flag
ErrorSuppressed(job) == job.cancelled

\* run(), lines 1004-1009: the exception handler
Run_Except(j) ==
    /\ jobs[j].pc = "except"
    /\ IF ~ErrorSuppressed(jobs[j])
       THEN /\ Terminated(j, Returned(jobs[j], "Failed"))
            /\ ui_queue' = Append(ui_queue, ErrorEvent(j))
       ELSE /\ Terminated(j, Returned(jobs[j], "Cancelled"))
            /\ ui_queue' = ui_queue
    /\ UNCHANGED << tab_widget, current_tab, tabs_created, running_queries,
                    tab_timers, cancel_enabled, jobs_created, history, dialog >>
    /\ UNCHANGED << processes_tab, export_vars >>

\* ------------------------------------- UI thread: the outcome handlers
\* variant of HasConnectionId: the check of line 1880 left out
MutHasConnectionId(conn_data) == TRUE

\* save_query_to_history, line 1880: the descriptor carries an id
HasConnectionId(conn_data) == conn_data.id # 0

\* variant of save_query_to_history: nothing is saved
Mut_save_query_to_history(job, conn_data, query, status, rows) == history

\* MainWindow.save_query_to_history: history afterwards, one record per call
\* of db.save_query_history
save_query_to_history(job, conn_data, query, status, rows) ==
    IF ~HasConnectionId(conn_data) THEN history
    ELSE Append(history, [job |-> job, connection_item_id |-> conn_data.id,
                          query_text |-> query, status |-> status,
                          rows_affected |-> rows])

\* variant of EndOfJob: the handler drops the timer entry only
MutEndOfJobTimersOnly(target_tab) ==
    /\ tab_timers' = IF target_tab \in DOMAIN tab_timers
                     THEN [x \in DOMAIN tab_timers \ {target_tab} |-> tab_timers[x]]
                     ELSE tab_timers
    /\ UNCHANGED << running_queries, cancel_enabled >>

\* variant of EndOfJob: the handler drops the registry entry only
MutEndOfJobRegistryOnly(target_tab) ==
    /\ running_queries' = [x \in DOMAIN running_queries \ {target_tab} |-> running_queries[x]]
    /\ cancel_enabled' = IF DOMAIN running_queries \subseteq {target_tab}
                         THEN FALSE ELSE cancel_enabled
    /\ UNCHANGED tab_timers

\* variant of EndOfJob: the handler drops every entry of both dictionaries
MutEndOfJob(target_tab) ==
    /\ tab_timers' = << >>
    /\ running_queries' = << >>
    /\ cancel_enabled' = FALSE

\* lines 1830-1833, 1853-1856 (and 1790-1793, 1800-1803): the handler drops
\* the timer and registry entries of its target tab
EndOfJob(target_tab) ==
    LET rq == IF target_tab \in DOMAIN running_queries
              THEN DictDel(running_queries, target_tab) ELSE running_queries
    IN /\ tab_timers' = IF target_tab \in DOMAIN tab_timers
                        THEN DictDel(tab_timers, target_tab) ELSE tab_timers
       /\ running_queries' = rq
       /\ cancel_enabled' = IF DOMAIN rq = {} THEN FALSE ELSE cancel_enabled

\* variant of TargetTab: the handler works on the tab that is current
MutTargetTab(e) == current_tab

\* execute_query, lines 1762-1764: partial(handler, current_tab) binds the
\* submitting tab as the handler's target_tab
TargetTab(e) == e.target_tab

\* MainWindow.handle_query_result(target_tab, ...), connected in execute_query
handle_query_result ==
    /\ ui_queue # <<>>
    /\ LET e == Head(ui_queue) IN
       /\ e.sig = "finished" /\ e.kind = "query"
       /\ EndOfJob(TargetTab(e))
       /\ history' = save_query_to_history(e.job, e.conn_data, e.query,
                                           "Success", e.row_count)
       /\ jobs' = [jobs EXCEPT ![e.job].results_handled = @ + 1,
                               ![e.job].handled_for = TargetTab(e)]
    /\ ui_queue' = Tail(ui_queue)
    /\ UNCHANGED << tab_widget, current_tab, tabs_created, jobs_created,
                    pool_queue, dialog >>
    /\ UNCHANGED << processes_tab, export_vars >>

\* MainWindow.handle_query_error(target_tab, error_message)
handle_query_error ==
    /\ ui_queue # <<>>
    /\ LET e == Head(ui_queue) IN
       /\ e.sig = "error" /\ e.kind = "query"
       /\ EndOfJob(TargetTab(e))
       /\ jobs' = [jobs EXCEPT ![e.job].errors_handled = @ + 1,
                               ![e.job].handled_for = TargetTab(e)]
    /\ ui_queue' = Tail(ui_queue)
    /\ UNCHANGED << tab_widget, current_tab, tabs_created, jobs_created,
                    pool_queue, history, dialog >>
    /\ UNCHANGED << processes_tab, export_vars >>

\* MainWindow.handle_count_result, connected in count_table_rows; an empty
\* result goes on to handle_count_error
handle_count_result ==
    /\ ui_queue # <<>>
    /\ LET e == Head(ui_queue) IN
       /\ e.sig = "finished" /\ e.kind = "count"
       /\ jobs' = [jobs EXCEPT ![e.job].results_handled = @ + 1]
    /\ ui_queue' = Tail(ui_queue)
    /\ UNCHANGED << tab_widget, current_tab, tabs_created, running_queries,
                    tab_timers, cancel_enabled, jobs_created, pool_queue,
                    history, dialog >>
    /\ UNCHANGED << processes_tab, export_vars >>

\* MainWindow.handle_count_error
handle_count_error ==
    /\ ui_queue # <<>>
    /\ LET e == Head(ui_queue) IN
       /\ e.sig = "error" /\ e.kind = "count"
       /\ jobs' = [jobs EXCEPT ![e.job].errors_handled = @ + 1]
    /\ ui_queue' = Tail(ui_queue)
    /\ UNCHANGED << tab_widget, current_tab, tabs_created, running_queries,
                    tab_timers, cancel_enabled, jobs_created, pool_queue,
                    history, dialog >>
    /\ UNCHANGED << processes_tab, export_vars >>

\* ---------------------------------------------------- the export engine
\* item_data of a schema tree item whose context menu offers "Export Rows"
\* (line 2059): a table of a sqlite or of a postgres connection
ItemDatas == { [present |-> TRUE, db_type |-> t] : t \in {"sqlite", "postgres"} }

\* options['filename'] of the ExportDialog: empty, or a path
FileNames == { "", "table.csv" }

\* MainWindow._create_processes_tab: the tab widget afterwards; addTab
\* appends the new widget and leaves the current tab as it is
TabsWithProcessesTab ==
    IF processes_tab THEN tab_widget ELSE Append(tab_widget, ProcessesTab)

\* MainWindow._create_processes_tab: processes_model afterwards, a new and
\* empty QStandardItemModel unless the Processes tab exists
ModelWithProcessesTab == IF processes_tab THEN processes_model ELSE <<>>

\* export_schema_table_rows, line 2116: the row data of a new process
InitialData == [status |-> "Running", time_taken |-> "...", details |-> "Exporting to"]

\* variant of handle_process_started: no row is appended
Mut_handle_process_started(model, process_id, data) == model

\* MainWindow.handle_process_started: appendRow; updates counts the terminal
\* updates the row has had
handle_process_started(model, process_id, data) ==
    Append(model, [process_id |-> process_id, status |-> data.status,
                   time_taken |-> data.time_taken, details |-> data.details,
                   updates |-> 0])

\* MainWindow.export_schema_table_rows; accepted is the ExportDialog's result,
\* filename its options['filename']; process_id is a fresh uuid4.  The
\* started signal is emitted and handled on the UI thread, within the call.
export_schema_table_rows(item_data, accepted, filename) ==
    LET x == exports_created + 1 IN
    /\ dialog = "none"
    /\ IF ~item_data.present \/ ~accepted
       THEN UNCHANGED << tab_widget, current_tab, dialog, processes_tab,
                         processes_model, exports, exports_created >>
       ELSE IF filename = ""
       THEN /\ tab_widget' = TabsWithProcessesTab
            /\ processes_tab' = TRUE
            /\ processes_model' = ModelWithProcessesTab
            /\ dialog' = "No Filename"
            /\ UNCHANGED << current_tab, exports, exports_created >>
       ELSE /\ exports_created < MaxExports
            /\ tab_widget' = TabsWithProcessesTab
            /\ processes_tab' = TRUE
            /\ current_tab' = ProcessesTab
            /\ processes_model' = handle_process_started(ModelWithProcessesTab, x,
                                                         InitialData)
            /\ exports' = [exports EXCEPT ![x] =
                             [UnusedExport EXCEPT !.pc = "waiting", !.process_id = x,
                                                  !.db_type = item_data.db_type]]
            /\ exports_created' = x
            /\ UNCHANGED dialog
    /\ UNCHANGED << tabs_created, running_queries, tab_timers, cancel_enabled,
                    jobs, jobs_created, pool_queue, ui_queue, history >>

\* RunnableExport.run, lines 921-942: where the export fails, "" when it
\* does not; opened: the connection factory returned a handle, read_ok:
\* pd.read_sql_query returned, write_ok: to_excel / to_csv returned
ExportFailure(job, opened, read_ok, write_ok) ==
    IF job.db_type \notin {"sqlite", "postgres"} THEN "db_type"
    ELSE IF ~opened THEN "connect"
    ELSE IF ~read_ok THEN "query"
    ELSE IF ~write_ok THEN "write"
    ELSE ""

\* signals.finished.emit(process_id, success_message, time_taken)
ProcessFinishedEvent(x) ==
    [ sig |-> "process_finished", kind |-> "export", export |-> x,
      process_id |-> exports[x].process_id, message |-> "Successfully exported",
      time_taken |-> "time_taken" ]

\* signals.error.emit(process_id, message)
ProcessErrorEvent(x) ==
    [ sig |-> "process_error", kind |-> "export", export |-> x,
      process_id |-> exports[x].process_id,
      message |-> "An error occurred during export", time_taken |-> "" ]

\* variant of ExportReports: run() ends without a report
MutExportReportsNone(x, failure) == <<>>

\* variant of ExportReports: a failing export reports finished as well
MutExportReports(x, failure) ==
    IF failure = "" THEN << ProcessFinishedEvent(x) >>
    ELSE << ProcessFinishedEvent(x), ProcessErrorEvent(x) >>

\* RunnableExport.run, lines 943-949: the signals one call of run() emits
ExportReports(x, failure) ==
    IF failure = "" THEN << ProcessFinishedEvent(x) >>
    ELSE << ProcessErrorEvent(x) >>

\* the emissions of signal sig among reports
Emitted(reports, sig) ==
    Cardinality({ i \in DOMAIN reports : reports[i].sig = sig })

\* RunnableExport.run on a pool thread.  It shares nothing with the UI
\* thread but the signals it emits at its end, so the call is one step.
Run_Export(x, opened, read_ok, write_ok) ==
    LET failure == ExportFailure(exports[x], opened, read_ok, write_ok)
        reports == ExportReports(x, failure)
    IN
    /\ exports[x].pc = "waiting"
    /\ exports' = [exports EXCEPT ![x] =
                     [@ EXCEPT !.pc = "done",
                               !.conn = Closed(IF failure \in {"db_type", "connect"}
                                               THEN "none" ELSE "open"),
                               !.written = (failure = ""),
                               !.outcome = IF failure = "" THEN "Finished" ELSE "Error",
                               !.failure = failure,
                               !.finished_emitted = Emitted(reports, "process_finished"),
                               !.error_emitted = Emitted(reports, "process_error")]]
    /\ ui_queue' = ui_queue \o reports
    /\ UNCHANGED << tab_widget, current_tab, tabs_created, running_queries,
                    tab_timers, cancel_enabled, jobs, jobs_created, pool_queue,
                    history, dialog, processes_tab, processes_model,
                    exports_created >>

\* the search of find_process_row from row on; rows are counted from 1
RECURSIVE FindFrom(_, _, _)
FindFrom(model, process_id, row) ==
    IF row > Len(model) THEN -1
    ELSE IF model[row].process_id = process_id THEN row
    ELSE FindFrom(model, process_id, row + 1)

\* variant of find_process_row: a miss yields the last row that was added
Mut_find_process_row(model, process_id) ==
    IF FindFrom(model, process_id, 1) = -1 /\ model # <<>> THEN Len(model)
    ELSE FindFrom(model, process_id, 1)

\* MainWindow.find_process_row: the first row of the model whose pid item
\* holds process_id, -1 when there is none
find_process_row(model, process_id) == FindFrom(model, process_id, 1)

\* variant of SetRow: every row of the model is updated
MutSetRow(model, row, status, time_taken, details) ==
    [r \in DOMAIN model |->
        [model[r] EXCEPT !.status = status, !.time_taken = time_taken,
                         !.details = details, !.updates = @ + 1]]

\* lines 2149-2154 and 2160-2164: setItem(row, 2, status_item) and setText
\* on the items of row
SetRow(model, row, status, time_taken, details) ==
    [model EXCEPT ![row] = [@ EXCEPT !.status = status, !.time_taken = time_taken,
                                     !.details = details, !.updates = @ + 1]]

\* MainWindow.handle_process_finished(process_id, message, time_taken)
handle_process_finished ==
    /\ ui_queue # <<>>
    /\ Head(ui_queue).sig = "process_finished"
    /\ LET e == Head(ui_queue)
           row == find_process_row(processes_model, e.process_id)
       IN /\ processes_model' =
                IF row = -1 THEN processes_model
                ELSE SetRow(processes_model, row, "Finished", e.time_taken, e.message)
          /\ exports' = [exports EXCEPT ![e.export].reports_handled = @ + 1,
                                        ![e.export].reports_missed =
                                            IF row = -1 THEN @ + 1 ELSE @]
    /\ ui_queue' = Tail(ui_queue)
    /\ UNCHANGED << tab_widget, current_tab, tabs_created, running_queries,
                    tab_timers, cancel_enabled, jobs, jobs_created, pool_queue,
                    history, dialog, processes_tab, exports_created >>

\* MainWindow.handle_process_error(process_id, error_message)
handle_process_error ==
    /\ ui_queue # <<>>
    /\ Head(ui_queue).sig = "process_error"
    /\ LET e == Head(ui_queue)
           row == find_process_row(processes_model, e.process_id)
       IN /\ processes_model' =
                IF row = -1 THEN processes_model
                ELSE SetRow(processes_model, row, "Error",
                            processes_model[row].time_taken, e.message)
          /\ exports' = [exports EXCEPT ![e.export].reports_handled = @ + 1,
                                        ![e.export].reports_missed =
                                            IF row = -1 THEN @ + 1 ELSE @]
    /\ ui_queue' = Tail(ui_queue)
    /\ UNCHANGED << tab_widget, current_tab, tabs_created, running_queries,
                    tab_timers, cancel_enabled, jobs, jobs_created, pool_queue,
                    history, dialog, processes_tab, exports_created >>

\* ------------------------------------------------------- specification
Next ==
    \/ add_tab
    \/ \E i \in 1 .. MaxTabs : select_tab(i)
    \/ \E i \in 1 .. MaxTabs : close_tab(i)
    \/ \E h \in BOOLEAN, c \in ConnDatas \cup {NoConnData}, t \in EditorTexts :
          execute_query(h, c, t)
    \/ cancel_current_query
    \/ dismiss_dialog
    \/ count_table_rows(TreeConnData)
    \/ \E j \in JobIds, opened \in BOOLEAN, raised \in BOOLEAN :
          \E resp \in Responses(jobs[j].query) : Run_Execute(j, opened, raised, resp)
    \/ \E j \in JobIds, raised \in BOOLEAN : Run_Marshal(j, raised)
    \/ \E j \in JobIds : Run_Final(j)
    \/ \E j \in JobIds : Run_Except(j)
    \/ handle_query_result
    \/ handle_query_error
    \/ handle_count_result
    \/ handle_count_error

Spec == Init /\ [][Next]_vars

\* The same window when the user submits a single job, from a worksheet or
\* from the schema tree, and goes on to cancel it, to open, select and close
\* tabs: every step of RunnableQuery.run and of the handlers, for one job.
NextOneJob ==
    \/ add_tab
    \/ \E i \in 1 .. MaxTabs : select_tab(i)
    \/ \E i \in 1 .. MaxTabs : close_tab(i)
    \/ \E h \in BOOLEAN, c \in ConnDatas \cup {NoConnData}, t \in EditorTexts :
          jobs_created = 0 /\ execute_query(h, c, t)
    \/ cancel_current_query
    \/ dismiss_dialog
    \/ jobs_created = 0 /\ count_table_rows(TreeConnData)
    \/ \E opened \in BOOLEAN, raised \in BOOLEAN :
          \E resp \in Responses(jobs[1].query) : Run_Execute(1, opened, raised, resp)
    \/ \E raised \in BOOLEAN : Run_Marshal(1, raised)
    \/ Run_Final(1)
    \/ Run_Except(1)
    \/ handle_query_result
    \/ handle_query_error
    \/ handle_count_result
    \/ handle_count_error

SpecOneJob == Init /\ [][NextOneJob]_vars

\* The same window when the user runs one mutating statement per job on a
\* stored connection, from any of its worksheets, and the backend cannot
\* tell the row count: every operation on the sessions, with two jobs.
NextSessions ==
    \/ add_tab
    \/ \E i \in 1 .. MaxTabs : select_tab(i)
    \/ \E i \in 1 .. MaxTabs : close_tab(i)
    \/ \E h \in BOOLEAN : execute_query(h, TreeConnData, <<"UPDATE">>)
    \/ cancel_current_query
    \/ dismiss_dialog
    \/ \E j \in JobIds, opened \in BOOLEAN, raised \in BOOLEAN :
          Run_Execute(j, opened, raised, NoResp)
    \/ \E j \in JobIds, raised \in BOOLEAN : Run_Marshal(j, raised)
    \/ \E j \in JobIds : Run_Final(j)
    \/ \E j \in JobIds : Run_Except(j)
    \/ handle_query_result
    \/ handle_query_error

SpecSessions == Init /\ [][NextSessions]_vars

\* The same window when the user exports tables from the schema tree and
\* closes tabs, the Processes tab among them, next to its first worksheet.
NextExport ==
    \/ \E i \in 1 .. 2 : close_tab(i)
    \/ dismiss_dialog
    \/ \E item_data \in ItemDatas, accepted \in BOOLEAN, filename \in FileNames :
          export_schema_table_rows(item_data, accepted, filename)
    \/ \E x \in ExportIds, opened \in BOOLEAN, read_ok \in BOOLEAN, write_ok \in BOOLEAN :
          Run_Export(x, opened, read_ok, write_ok)
    \/ handle_process_finished
    \/ handle_process_error

SpecExport == Init /\ [][NextExport]_vars

\* The event loop of the UI thread delivers every queued signal, and a pool
\* thread that runs a job goes on running it; the backend calls return.
QueryFairness ==
    /\ \A j \in JobIds : WF_vars(\E opened \in BOOLEAN, raised \in BOOLEAN :
                                    Run_Execute(j, opened, raised, NoResp))
    /\ \A j \in JobIds : WF_vars(\E raised \in BOOLEAN : Run_Marshal(j, raised))
    /\ \A j \in JobIds : WF_vars(Run_Final(j))
    /\ \A j \in JobIds : WF_vars(Run_Except(j))
    /\ WF_vars(handle_query_result)
    /\ WF_vars(handle_query_error)

SpecSessionsFair == SpecSessions /\ QueryFairness

\* The same window when the user runs one mutating statement from the first
\* worksheet and exports tables from the schema tree next to it, cancels,
\* selects and closes tabs: one query job and the export jobs side by side;
\* an export fails, if it does, at its connection.
\* A submission needs a worksheet as the current tab (line 1740).
NextMixed ==
    \/ \E i \in 1 .. 2 : select_tab(i)
    \/ \E i \in 1 .. 2 : close_tab(i)
    \/ /\ jobs_created = 0
       /\ current_tab \in TabIds
       /\ execute_query(FALSE, TreeConnData, <<"UPDATE">>)
    \/ cancel_current_query
    \/ dismiss_dialog
    \/ \E item_data \in ItemDatas :
          export_schema_table_rows(item_data, TRUE, "table.csv")
    \/ \E opened \in BOOLEAN, raised \in BOOLEAN : Run_Execute(1, opened, raised, NoResp)
    \/ \E raised \in BOOLEAN : Run_Marshal(1, raised)
    \/ Run_Final(1)
    \/ Run_Except(1)
    \/ handle_query_result
    \/ handle_query_error
    \/ \E x \in ExportIds, opened \in BOOLEAN :
          Run_Export(x, opened, TRUE, TRUE)
    \/ handle_process_finished
    \/ handle_process_error

SpecMixed == Init /\ [][NextMixed]_vars

\* A pool thread takes every RunnableExport and run() returns; the event
\* loop delivers the process signals.
ExportFairness ==
    /\ \A x \in ExportIds :
          WF_vars(\E opened \in BOOLEAN : Run_Export(x, opened, TRUE, TRUE))
    /\ WF_vars(handle_process_finished)
    /\ WF_vars(handle_process_error)

SpecMixedFair == SpecMixed /\ QueryFairness /\ ExportFairness

\* The same window when the user runs one mutating statement on any item of
\* the connection store: one job per descriptor category.
NextBackends ==
    \/ add_tab
    \/ \E i \in 1 .. MaxTabs : select_tab(i)
    \/ \E i \in 1 .. MaxTabs : close_tab(i)
    \/ \E h \in BOOLEAN, c \in StoredConnDatas :
          jobs_created = 0 /\ execute_query(h, c, <<"UPDATE">>)
    \/ cancel_current_query
    \/ dismiss_dialog
    \/ \E opened \in BOOLEAN, raised \in BOOLEAN : Run_Execute(1, opened, raised, NoResp)
    \/ \E raised \in BOOLEAN : Run_Marshal(1, raised)
    \/ Run_Final(1)
    \/ Run_Except(1)
    \/ handle_query_result
    \/ handle_query_error

SpecBackends == Init /\ [][NextBackends]_vars

\* ------------------------------------------------------------- claims
\* the number of history records written for job j
HistoryCount(j) == Cardinality({ i \in DOMAIN history : history[i].job = j })

\* the finished signals emitted and not yet handled
FinishedEvents == { ui_queue[i] : i \in { k \in DOMAIN ui_queue : ui_queue[k].sig = "finished" } }

\* the jobs submitted by tab t that have not reached a terminal state
InFlight(t) == { j \in JobIds : /\ jobs[j].kind = "query"
                                /\ jobs[j].tab = t
                                /\ jobs[j].pc \in {"pending", "queued", "marshal", "final", "except"} }

\* C1: an execute_query invoked while the current tab has an entry in
\* running_queries creates no job, hands nothing to the pool and leaves the
\* registered job, its cancel flag and the tab's timer entry unchanged.
C1_RefusedSubmit ==
    [][ \A h \in BOOLEAN, c \in ConnDatas \cup {NoConnData}, t \in EditorTexts :
          (current_tab \in DOMAIN running_queries /\ execute_query(h, c, t))
          => /\ jobs' = jobs
             /\ jobs_created' = jobs_created
             /\ pool_queue' = pool_queue
             /\ running_queries' = running_queries
             /\ tab_timers' = tab_timers ]_vars

C1_Witness ==
    /\ dialog = "Query in Progress"
    /\ current_tab \in DOMAIN running_queries
    /\ current_tab \in DOMAIN tab_timers

\* C2: at every reachable state every session has at most one of its query
\* jobs in flight (Pending or Running, not yet terminal).
C2_AtMostOneInFlight == \A t \in TabIds : Cardinality(InFlight(t)) <= 1

\* C3: a job whose cancel flag was set when the final checkpoint read it
\* emits no finished signal, is never handled by handle_query_result and
\* has no history record, whether or not its statement completed.
C3_CancelSuppressesSuccess ==
    \A j \in JobIds :
        jobs[j].final_read = "set"
        => /\ jobs[j].outcome = "Cancelled"
           /\ \A e \in FinishedEvents : e.job # j
           /\ jobs[j].results_handled = 0
           /\ HistoryCount(j) = 0

C3_Witness ==
    \E j \in JobIds : /\ jobs[j].final_read = "set"
                      /\ jobs[j].committed
                      /\ jobs[j].pc = "done"

\* C4: handle_query_result is never executed for a job whose cancel flag
\* had been set (no Succeeded outcome is delivered after a cancel or close).
C4_NoResultForCancelledJob ==
    \A j \in JobIds : jobs[j].results_handled > 0 => ~jobs[j].cancelled

\* C5 as stated: every Succeeded job with a connection id, submitted by
\* execute_query or by count_table_rows, has exactly one history record once
\* its outcome is handled.
C5_HistoryForEverySucceeded ==
    \A j \in JobIds :
        (jobs[j].outcome = "Succeeded" /\ jobs[j].conn_data.id # 0
             /\ jobs[j].results_handled > 0)
        => HistoryCount(j) = 1

\* C5 as amended: a job submitted by execute_query that reaches Succeeded
\* with a connection id has no history record while its outcome waits to be
\* handled and exactly one, of status "Success", from its handling on; a job
\* submitted by count_table_rows never has one.
C5_HistoryForExecuteQuery ==
    \A j \in JobIds :
        /\ (jobs[j].kind = "query" /\ jobs[j].outcome = "Succeeded"
                /\ jobs[j].conn_data.id # 0)
           => IF \E e \in FinishedEvents : e.job = j
              THEN HistoryCount(j) = 0 /\ jobs[j].results_handled = 0
              ELSE /\ HistoryCount(j) = 1 /\ jobs[j].results_handled = 1
                   /\ \A i \in DOMAIN history :
                        history[i].job = j
                        => /\ history[i].status = "Success"
                           /\ history[i].connection_item_id = jobs[j].conn_data.id
        /\ jobs[j].kind = "count" => HistoryCount(j) = 0

C5_Witness ==
    /\ \E j \in JobIds : /\ jobs[j].kind = "query"
                         /\ jobs[j].outcome = "Succeeded"
                         /\ jobs[j].conn_data.id # 0
                         /\ jobs[j].results_handled = 1
                         /\ HistoryCount(j) = 1
    /\ \E j \in JobIds : /\ jobs[j].kind = "count"
                         /\ jobs[j].outcome = "Succeeded"
                         /\ jobs[j].results_handled = 1

\* C6: no history record is written for a job that ended Failed or
\* Cancelled, nor for a job whose descriptor has no connection id.
C6_NoHistoryOtherwise ==
    \A j \in JobIds :
        (jobs[j].outcome \in {"Failed", "Cancelled"} \/ jobs[j].conn_data.id = 0)
        => HistoryCount(j) = 0

C6_Witness ==
    /\ \E j \in JobIds : /\ jobs[j].kind = "query"
                         /\ jobs[j].outcome = "Succeeded"
                         /\ jobs[j].conn_data.id = 0
                         /\ jobs[j].results_handled = 1
    /\ \E j \in JobIds : /\ jobs[j].outcome = "Failed"
                         /\ jobs[j].errors_handled = 1

\* C7: the affected count of every Succeeded outcome of a mutating
\* statement is >= 0, and is 0 when the backend reported the unknown
\* sentinel as its rowcount.
C7_AffectedCountNonNegative ==
    \A e \in FinishedEvents :
        ~IsSelectQuery(e.query)
        => /\ e.row_count >= 0
           /\ e.backend.rowcount = UnknownRowCount => e.row_count = 0

C7_Witness ==
    \E e \in FinishedEvents : /\ ~IsSelectQuery(e.query)
                              /\ e.backend.rowcount = UnknownRowCount
                              /\ e.row_count = 0

\* C8 as stated: every Succeeded outcome of a row-returning statement has
\* is_row_returning true, the backend's rows, and an affected count of 0.
C8_SelectCountZero ==
    \A e \in FinishedEvents :
        IsSelectQuery(e.query)
        => /\ e.is_select_query
           /\ e.results = e.backend.rows
           /\ e.row_count = 0

\* C8 as amended: every Succeeded outcome of a row-returning statement has
\* is_row_returning true, the backend's rows, and a count equal to the
\* number of those rows.
C8_SelectCountIsRows ==
    \A e \in FinishedEvents :
        IsSelectQuery(e.query)
        => /\ e.is_select_query
           /\ e.results = e.backend.rows
           /\ e.row_count = Len(e.backend.rows)

C8_Witness ==
    \E e \in FinishedEvents : /\ IsSelectQuery(e.query)
                              /\ Len(e.backend.rows) = MaxRows
                              /\ e.row_count = MaxRows

\* C9: every Succeeded outcome of a mutating statement has is_row_returning
\* false, no rows and no columns, was committed before it was emitted, and
\* carries the backend's rowcount whenever that is non-negative.
C9_MutatingOutcome ==
    \A e \in FinishedEvents :
        ~IsSelectQuery(e.query)
        => /\ ~e.is_select_query
           /\ e.results = <<>>
           /\ e.columns = <<>>
           /\ e.committed
           /\ e.backend.rowcount >= 0 => e.row_count = e.backend.rowcount

C9_Witness ==
    \E e \in FinishedEvents : /\ ~IsSelectQuery(e.query)
                              /\ e.backend.rowcount = MaxRows
                              /\ e.row_count = MaxRows
                              /\ e.committed

\* C10: the columns of a Succeeded row-returning outcome are the column
\* names of the backend's descriptor, in order, also when there are no
\* rows; without a descriptor the outcome has no columns and no rows.
C10_ColumnsFollowDescriptor ==
    \A e \in FinishedEvents :
        e.is_select_query
        => IF e.backend.description # <<>>
           THEN /\ Len(e.columns) = Len(e.backend.description)
                /\ \A i \in 1 .. Len(e.columns) :
                       e.columns[i] = e.backend.description[i][1]
           ELSE e.columns = <<>> /\ e.results = <<>>

C10_Witness ==
    \E e \in FinishedEvents : /\ e.is_select_query
                              /\ e.columns = <<"a", "b">>
                              /\ e.results = <<>>

\* the signals of job j that wait in the UI thread's queue
EventsOf(j) ==
    { i \in DOMAIN ui_queue : /\ ui_queue[i].kind \in {"query", "count"}
                              /\ ui_queue[i].job = j }

\* the tabs that sit in the tab widget
OpenTabs == { tab_widget[i] : i \in DOMAIN tab_widget }

\* C11: a job of a session whose flag was set by cancel_current_query while
\* it was Pending (handed to the pool, run() not started) delivers neither a
\* result nor an error, writes no history, ends Cancelled when it ends, and
\* is no longer the job registered for its session.
C11_CancelWhilePending ==
    \A j \in JobIds :
        (jobs[j].cancelled_pending /\ jobs[j].cancelled_by = "cancel_current_query")
        => /\ EventsOf(j) = {}
           /\ jobs[j].results_handled = 0
           /\ jobs[j].errors_handled = 0
           /\ HistoryCount(j) = 0
           /\ jobs[j].pc = "done" => jobs[j].outcome = "Cancelled"
           /\ Registered(jobs[j].tab) # j

C11_Witness ==
    \E j \in JobIds : /\ jobs[j].cancelled_pending
                      /\ jobs[j].cancelled_by = "cancel_current_query"
                      /\ jobs[j].pc = "done"
                      /\ jobs[j].outcome = "Cancelled"
                      /\ jobs[j].conn = "none"

\* C12: a close_tab that removes a tab with a registered job sets that
\* job's cancel flag and leaves the tab without a registry entry, without a
\* timer entry and out of the tab widget.
C12_CloseCancels ==
    [][ \A i \in 1 .. MaxTabs :
          (close_tab(i) /\ Len(tab_widget) > 1
               /\ tab_widget[i] \in DOMAIN running_queries)
          => /\ jobs'[running_queries[tab_widget[i]]].cancelled
             /\ tab_widget[i] \notin DOMAIN running_queries'
             /\ tab_widget[i] \notin DOMAIN tab_timers'
             /\ \A k \in DOMAIN tab_widget' : tab_widget'[k] # tab_widget[i] ]_vars

C12_Witness ==
    \E j \in JobIds : /\ jobs[j].cancelled_by = "close_tab"
                      /\ jobs[j].pc \in {"pending", "marshal", "final", "except"}
                      /\ jobs[j].tab \notin OpenTabs
                      /\ jobs[j].tab \notin DOMAIN running_queries
                      /\ jobs[j].tab \notin DOMAIN tab_timers

\* C13: a cancel_current_query on a tab without a registered job changes
\* nothing (registry, timers, every job's flag), and every
\* cancel_current_query leaves the current tab without a registered job, so
\* that a second call in a row is such a no-op.
C13_CancelNoOp ==
    [][ cancel_current_query
        => /\ current_tab \notin DOMAIN running_queries
              => /\ running_queries' = running_queries
                 /\ tab_timers' = tab_timers
                 /\ \A j \in JobIds : jobs'[j].cancelled = jobs[j].cancelled
                 /\ cancel_enabled' = cancel_enabled
           /\ current_tab \notin DOMAIN running_queries' ]_vars

C13_Witness ==
    /\ dialog = "none"
    /\ current_tab \notin DOMAIN running_queries
    /\ \E j \in JobIds : /\ jobs[j].tab = current_tab
                         /\ jobs[j].cancelled_by = "cancel_current_query"
                         /\ jobs[j].pc \in {"pending", "marshal", "final", "except"}

\* run() went past its connection step without a connection handle
ConnRefused(j) ==
    jobs[j].pc \in {"marshal", "final", "except", "done"} /\ jobs[j].conn = "none"

\* C14 as stated: a job whose connection factory yielded no handle ends
\* Failed, without executing its statement and without a history record.
C14_ConnectFailureFails ==
    \A j \in JobIds :
        (ConnRefused(j) /\ jobs[j].pc = "done")
        => /\ jobs[j].outcome = "Failed"
           /\ ~jobs[j].executed
           /\ HistoryCount(j) = 0

\* C14 as amended: a job whose connection factory yielded no handle never
\* executes its statement, delivers no result and writes no history; it ends
\* Failed with the connection error emitted once and handled for its own
\* session, unless its cancel flag is set by then: then it ends Cancelled
\* and delivers nothing.
C14_ConnectFailure ==
    \A j \in JobIds :
        ConnRefused(j)
        => /\ jobs[j].pc \in {"except", "done"}
           /\ ~jobs[j].executed /\ ~jobs[j].committed
           /\ HistoryCount(j) = 0
           /\ jobs[j].results_handled = 0
           /\ \A i \in EventsOf(j) : ui_queue[i].sig = "error"
           /\ jobs[j].pc = "done"
              => \/ /\ jobs[j].outcome = "Failed"
                    /\ Cardinality(EventsOf(j)) + jobs[j].errors_handled = 1
                    /\ \A i \in EventsOf(j) :
                          ui_queue[i].error_message =
                              "Failed to establish database connection."
                    /\ jobs[j].errors_handled = 1 => jobs[j].handled_for = jobs[j].tab
                 \/ /\ jobs[j].outcome = "Cancelled"
                    /\ jobs[j].cancelled
                    /\ EventsOf(j) = {}
                    /\ jobs[j].errors_handled = 0

C14_Witness ==
    \E j \in JobIds : /\ ConnRefused(j)
                      /\ jobs[j].kind = "query"
                      /\ jobs[j].outcome = "Failed"
                      /\ jobs[j].errors_handled = 1
                      /\ ~jobs[j].cancelled

\* the rows of the ledger that hold process_id
RowsOfProcess(process_id) ==
    { r \in DOMAIN processes_model : processes_model[r].process_id = process_id }

\* C15: an export job has emitted nothing before run() ends and exactly one
\* terminal report after it, finished when nothing failed and error when the
\* backend type, the connection, the query or the file write failed; every
\* ledger row has had at most one terminal update, is Running before it and
\* Finished or Error, as its job reported, after it.
C15_OneTerminalReport ==
    /\ \A x \in ExportIds :
          /\ exports[x].pc # "done"
             => exports[x].finished_emitted + exports[x].error_emitted = 0
          /\ exports[x].pc = "done"
             => /\ exports[x].finished_emitted + exports[x].error_emitted = 1
                /\ exports[x].finished_emitted = 1 <=> exports[x].failure = ""
          /\ exports[x].reports_handled <= 1
    /\ \A r \in DOMAIN processes_model :
          LET row == processes_model[r] IN
          /\ row.updates <= 1
          /\ row.status = "Running" <=> row.updates = 0
          /\ row.status = "Finished" => exports[row.process_id].failure = ""
          /\ row.status = "Error" => exports[row.process_id].failure # ""
          /\ row.status \in {"Running", "Finished", "Error"}

C15_Witness ==
    /\ \E r \in DOMAIN processes_model :
          /\ processes_model[r].status = "Finished"
          /\ processes_model[r].updates = 1
    /\ \E r \in DOMAIN processes_model :
          /\ processes_model[r].status = "Error"
          /\ exports[processes_model[r].process_id].failure = "write"

\* the handler of a terminal report takes a step
ProcessReportHandled == handle_process_finished \/ handle_process_error

\* C16: the handling of a terminal report leaves every ledger row whose
\* process_id differs from the reported one as it was, and adds or removes
\* no row.
C16_NoCrossTalk ==
    [][ ProcessReportHandled
        => /\ Len(processes_model') = Len(processes_model)
           /\ \A r \in DOMAIN processes_model :
                 processes_model[r].process_id # Head(ui_queue).process_id
                 => processes_model'[r] = processes_model[r] ]_vars

C16_Witness ==
    /\ Len(processes_model) = 2
    /\ processes_model[1].status = "Running"
    /\ processes_model[2].status = "Finished"
    /\ exports[processes_model[1].process_id].pc = "done"

\* C17: the handling of a terminal report whose process_id is held by no
\* ledger row changes no row; the handler returns.
C17_UnknownProcessId ==
    [][ (ProcessReportHandled /\ RowsOfProcess(Head(ui_queue).process_id) = {})
        => /\ processes_model' = processes_model
           /\ ui_queue' = Tail(ui_queue) ]_vars

C17_Witness ==
    \E x \in ExportIds : /\ exports[x].reports_missed = 1
                         /\ RowsOfProcess(exports[x].process_id) = {}
                         /\ processes_model # <<>>

\* C18: a job submitted by execute_query has at most one outcome, emitted or
\* handled, a result or an error and never both, and the handler that takes
\* it works on the tab that submitted the job.
C18_OneOutcomeOwnSession ==
    \A j \in JobIds :
        jobs[j].kind = "query"
        => /\ Cardinality(EventsOf(j)) + jobs[j].results_handled
                  + jobs[j].errors_handled <= 1
           /\ \A i \in EventsOf(j) : ui_queue[i].target_tab = jobs[j].tab
           /\ jobs[j].results_handled + jobs[j].errors_handled > 0
              => jobs[j].handled_for = jobs[j].tab

C18_Witness ==
    \E j \in JobIds : /\ jobs[j].kind = "query"
                      /\ jobs[j].results_handled = 1
                      /\ jobs[j].handled_for = jobs[j].tab
                      /\ current_tab # jobs[j].tab
                      /\ jobs[j].tab \in OpenTabs

\* the registry entry, the timer entry and the jobs' flags of every session
\* but a are the same before and after the step
OthersUntouched(a) ==
    /\ \A b \in TabIds \ {a} :
          /\ b \in DOMAIN running_queries <=> b \in DOMAIN running_queries'
          /\ b \in DOMAIN running_queries => running_queries'[b] = running_queries[b]
          /\ b \in DOMAIN tab_timers <=> b \in DOMAIN tab_timers'
          /\ b \in DOMAIN tab_timers => tab_timers'[b] = tab_timers[b]
    /\ \A j \in JobIds :
          jobs[j].tab # a => jobs'[j].cancelled = jobs[j].cancelled

\* C19: handling a result, an error or a cancellation (cancel_current_query,
\* close_tab) of a job of session A leaves the registry entry, the timer
\* entry and the job cancel flag of every other session unchanged.
C19_SessionIsolation ==
    [][ /\ (handle_query_result \/ handle_query_error)
           => OthersUntouched(Head(ui_queue).target_tab)
        /\ cancel_current_query => OthersUntouched(current_tab)
        /\ \A i \in 1 .. MaxTabs :
              (close_tab(i) /\ Len(tab_widget) > 1) => OthersUntouched(tab_widget[i]) ]_vars

C19_Witness ==
    \E a \in TabIds, b \in TabIds :
        /\ a # b
        /\ b \in DOMAIN running_queries /\ running_queries[b] = 1
        /\ b \in DOMAIN tab_timers
        /\ ~jobs[1].cancelled
        /\ jobs[2].tab = a /\ jobs[2].cancelled_by = "cancel_current_query"

\* C20: a job whose cancel flag was set before run() started, hence before
\* its connection was opened, never executes its statement.
C20_CheckpointAfterConnect ==
    \A j \in JobIds : jobs[j].cancelled_pending => ~jobs[j].executed

\* C21: on every exit path of a query job and of an export job (normal
\* end, cancellation at a checkpoint, exception) the connection the job
\* opened is closed by the time the job has terminated.
C21_ConnectionClosed ==
    /\ \A j \in JobIds : jobs[j].pc = "done" => jobs[j].conn # "open"
    /\ \A x \in ExportIds : exports[x].pc = "done" => exports[x].conn # "open"

\* a query job that was cancelled after it had connected, and an export that
\* had connected, have both terminated
C21_Witness ==
    /\ \E j \in JobIds : /\ jobs[j].pc = "done"
                         /\ jobs[j].outcome = "Cancelled"
                         /\ jobs[j].conn = "closed"
    /\ \E x \in ExportIds : exports[x].pc = "done" /\ exports[x].conn = "closed"

\* C22 as stated: a job whose exception was raised while its cancel flag was
\* not set (it is in its exception handler and the flag is unset) goes on to
\* end Failed: nothing that happens before the handler reports can turn the
\* error outcome into a silent Cancelled.
C22_RaisedUnflaggedFails ==
    [][\A j \in JobIds :
          (jobs[j].pc = "except" /\ ~jobs[j].cancelled)
          => \/ jobs'[j].pc = "except" /\ ~jobs'[j].cancelled
             \/ jobs'[j].pc = "done" /\ jobs'[j].outcome = "Failed"]_vars

\* C22: the exception handler of run() decides by the value the cancel flag
\* has when the handler reads it: when the flag is set the exception is
\* suppressed, the job ends Cancelled and nothing is emitted; when it is
\* unset the job ends Failed and exactly one error signal is emitted; in
\* neither case is there a result.
C22_ExceptionOutcome ==
    [][\A j \in JobIds :
          (jobs[j].pc = "except" /\ jobs'[j].pc = "done")
          => /\ jobs'[j].results_handled = 0
             /\ \A i \in DOMAIN ui_queue' :
                   ui_queue'[i].kind \in {"query", "count"} /\ ui_queue'[i].job = j
                   => ui_queue'[i].sig = "error"
             /\ IF jobs[j].cancelled
                THEN /\ jobs'[j].outcome = "Cancelled"
                     /\ ui_queue' = ui_queue
                ELSE /\ jobs'[j].outcome = "Failed"
                     /\ ui_queue' = Append(ui_queue, ErrorEvent(j))
                     /\ EventsOf(j) = {}]_vars

\* the connection failed in a run() that had started with the flag unset,
\* the flag was set before the handler read it, and the job ended Cancelled
C22_Witness ==
    \E j \in JobIds : /\ jobs[j].pc = "done"
                      /\ jobs[j].outcome = "Cancelled"
                      /\ jobs[j].conn = "none"
                      /\ ~jobs[j].cancelled_pending
                      /\ jobs[j].cancelled_by = "cancel_current_query"
                      /\ jobs[j].errors_handled = 0

\* C23: every accepted submission eventually leaves its session idle: the
\* registry entry made for the job is eventually removed, by the handler of
\* its outcome, by a cancellation or by the closing of its tab, so that the
\* session can submit again (the backend calls return, the pool thread and
\* the event loop keep running).
C23_SessionBecomesIdle ==
    \A t \in TabIds, j \in JobIds :
        (t \in DOMAIN running_queries /\ running_queries[t] = j)
        ~> (t \notin DOMAIN running_queries)

\* the outcome of the first job was handled and its session has submitted
\* the next job
C23_Witness ==
    \E t \in TabIds :
        /\ jobs[1].tab = t /\ jobs[1].pc = "done"
        /\ jobs[1].results_handled + jobs[1].errors_handled = 1
        /\ ~jobs[1].cancelled
        /\ jobs[2].tab = t
        /\ t \in DOMAIN running_queries /\ running_queries[t] = 2

\* the reports of export x that wait in the queue of the UI thread
ReportsOf(x) ==
    { i \in DOMAIN ui_queue : ui_queue[i].kind = "export" /\ ui_queue[i].export = x }

\* C24: the step that hands an export job to the pool leaves a ledger row
\* with the job's process_id and status Running behind it, and a terminal
\* report is emitted or handled only for a job that was handed over, so no
\* terminal report is handled before its row was inserted.
C24_RowBeforeHandOver ==
    /\ [][\A x \in ExportIds :
             (exports[x].pc = "unused" /\ exports'[x].pc # "unused")
             => /\ exports'[x].pc = "waiting"
                /\ exports'[x].reports_handled = 0
                /\ \E r \in DOMAIN processes_model' :
                      /\ processes_model'[r].process_id = exports'[x].process_id
                      /\ processes_model'[r].status = "Running"]_vars
    /\ [](\A x \in ExportIds :
             (exports[x].reports_handled > 0 \/ ReportsOf(x) # {})
             => exports[x].pc = "done")

\* an export waits for its pool thread and its Running row is in the ledger
C24_Witness ==
    \E x \in ExportIds :
        /\ exports[x].pc = "waiting"
        /\ \E r \in RowsOfProcess(exports[x].process_id) :
              processes_model[r].status = "Running"

\* a step that cancels a query job or closes a worksheet
SessionCancelledOrClosed ==
    \/ \E j \in JobIds : ~jobs[j].cancelled /\ jobs'[j].cancelled
    \/ \E t \in TabIds : /\ \E i \in DOMAIN tab_widget : tab_widget[i] = t
                         /\ \A i \in DOMAIN tab_widget' : tab_widget'[i] # t

\* C25: a cancellation of a query job and the closing of a worksheet leave
\* the export jobs, their pending reports and the ledger rows as they were,
\* and every export job handed to the pool runs on to exactly one Finished
\* or Error report.
C25_ExportsRunOn ==
    /\ [][SessionCancelledOrClosed
          => UNCHANGED << exports, processes_model, ui_queue >>]_vars
    /\ \A x \in ExportIds :
          (exports[x].pc = "waiting")
          ~> (/\ exports[x].pc = "done"
              /\ exports[x].outcome \in {"Finished", "Error"}
              /\ exports[x].finished_emitted + exports[x].error_emitted = 1)

\* a query job was cancelled by the closing of its worksheet while an export
\* waits for its pool thread, its Running row in the ledger
C25_Witness ==
    /\ \E j \in JobIds : jobs[j].cancelled /\ jobs[j].cancelled_by = "close_tab"
    /\ \E x \in ExportIds :
          /\ exports[x].pc = "waiting"
          /\ \E r \in RowsOfProcess(exports[x].process_id) :
                processes_model[r].status = "Running"

\* C26: a job whose descriptor is of an unsupported backend kind fails
\* before any connection is attempted: no connection factory is called for
\* it, it holds no connection and its statement is never executed.
C26_UnsupportedFailsFast ==
    \A j \in JobIds :
        (jobs[j].conn_data.present
            /\ jobs[j].conn_data.category \notin {"sqlite", "postgres"})
        => /\ jobs[j].connect_attempted = "none"
           /\ jobs[j].conn = "none"
           /\ ~jobs[j].executed
           /\ jobs[j].pc = "done" => jobs[j].outcome \in {"Failed", "Cancelled"}

\* C27: the handler of an outcome of a job removes no registry entry and no
\* timer entry but those that were made for that job: an outcome of an
\* earlier job of a session leaves the entries of a later job of the same
\* session in place.
C27_StaleOutcomeHarmless ==
    [][(ui_queue # <<>> /\ ui_queue' = Tail(ui_queue) /\ Head(ui_queue).kind = "query")
       => \A t \in TabIds :
             /\ (t \in DOMAIN running_queries /\ t \notin DOMAIN running_queries')
                => running_queries[t] = Head(ui_queue).job
             /\ (t \in DOMAIN tab_timers /\ t \notin DOMAIN tab_timers')
                => tab_timers[t].start_time = Head(ui_queue).job]_vars

\* C28: a job that ends Cancelled has not committed: only a job that goes
\* on to deliver its result commits its statement.
C28_CancelledNotCommitted ==
    \A j \in JobIds : jobs[j].outcome = "Cancelled" => ~jobs[j].committed

\* C29: after every operation of the UI thread the tabs that have a timer
\* entry are the tabs that have a registry entry, and the two entries of a
\* tab were made for the same job.
C29_TimersFollowRegistry ==
    /\ DOMAIN tab_timers = DOMAIN running_queries
    /\ \A t \in DOMAIN running_queries : tab_timers[t].start_time = running_queries[t]

\* the outcome of one job has been handled while another job is registered,
\* its timer running
C29_Witness ==
    /\ \E j \in JobIds : jobs[j].results_handled + jobs[j].errors_handled = 1
    /\ \E t \in TabIds : /\ t \in DOMAIN running_queries
                         /\ t \in DOMAIN tab_timers
                         /\ jobs[running_queries[t]].pc # "done"

\* C30: every job in the registry has its cancel flag unset; the step that
\* sets the flag of a job takes the job out of the registry, and a flag that
\* is set stays set.
C30_RegisteredUnflagged ==
    /\ [](\A t \in DOMAIN running_queries : ~jobs[running_queries[t]].cancelled)
    /\ [][\A j \in JobIds :
             /\ jobs[j].cancelled => jobs'[j].cancelled
             /\ (~jobs[j].cancelled /\ jobs'[j].cancelled)
                => \E t \in DOMAIN running_queries :
                      /\ running_queries[t] = j
                      /\ t \notin DOMAIN running_queries']_vars

\* a cancelled job is still running while the registry holds the unflagged
\* job its session submitted next
C30_Witness ==
    \E t \in TabIds, j \in JobIds, k \in JobIds :
        /\ j # k
        /\ jobs[j].tab = t /\ jobs[j].cancelled /\ jobs[j].pc \notin {"unused", "done"}
        /\ t \in DOMAIN running_queries /\ running_queries[t] = k
        /\ ~jobs[k].cancelled

====
